---- MODULE Spec2Model ----
(***************************************************************************)
(* The Tracking concept of the fitness backend                             *)
(* (src/server/concepts/pointing.ts, lines 127-351) and the routes that    *)
(* call it (src/server/routes.ts, lines 166-252), as a state machine: one  *)
(* action per await of a handler, so that requests in flight interleave    *)
(* between the read and the write of each handler.                         *)
(***************************************************************************)
EXTENDS Integers, Sequences, FiniteSets, TLC

\* ------------------------------------------------------------------ bounds

\* Number of requests that arrive in one behaviour.
MaxSteps == 4

\* Requests in flight at once.
MaxCalls == 2

\* ------------------------------------------------------------ input domains

Users == {"u1"}
TaskNames == {"squat", "bench"}
Descriptions == {"desc"}
Goals == {"", "muscle", "endurance", "strength", "cardio"}

\* enum Difficulty
Difficult == "Difficult"
JustRight == "JustRight"
Easy == "Easy"
Difficulty == {Difficult, JustRight, Easy}

\* An optional number that was not provided (sets?: number, reps?: number).
undefined == -1
\* (reps, sets, startingWeight) of a createTask request.
CreateArgs == {<<2, undefined, 0>>}
\* (reps, sets, weight) of an updateTask request.
UpdateArgs == {<<undefined, undefined, undefined>>, <<0, undefined, undefined>>,
               <<undefined, 2, undefined>>, <<0, undefined, 2>>}

\* Dates "new Date()" may return: the day counted from a Sunday, and the time
\* of day in minutes.
Dates == {[day |-> 3, time |-> 0], [day |-> 9, time |-> 615]}

\* Time zones the process may run in, each given by the local times one of its
\* days does not have: on the day daylight saving starts, the clock goes from
\* "from" straight to "to". UTC has no such day; in Havana it is a Sunday
\* (day 0 here) and the skipped hour is the first one.
UTC == [day |-> -1, from |-> 0, to |-> 0]
Havana == [day |-> 0, from |-> 0, to |-> 60]
TimeZones == {UTC, Havana}

NotFoundError == "NotFoundError"
NoError == ""

\* ------------------------------------------------------------ state

VARIABLES
    tracking,   \* the "exercise" collection: the TrackingDocs in insertion order
    last,       \* the last request served and what it returned
    ackGoal,    \* per user, the goal the last setUserGoal reported as updated
    steps,      \* requests that have arrived so far
    prior,      \* the "exercise" collection as the last request answered found
                \* it, and as it was when that request's last step was applied
    calls,      \* the requests in flight, each suspended at an await
    points,     \* the points collection: the PointDocs in insertion order
    TZ          \* the time zone of the process

vars == <<tracking, last, ackGoal, steps, prior, calls, points, TZ>>

NoGoal == "<no setUserGoal yet>"

\* ------------------------------------------------------------ DocCollection

\* readOne({ user }): the position of the first document of the user, 0 for null.
readOne(coll, user) ==
    IF \E i \in 1..Len(coll) : coll[i].user = user
    THEN CHOOSE i \in 1..Len(coll) :
            /\ coll[i].user = user
            /\ \A j \in 1..(i - 1) : coll[j].user # user
    ELSE 0

\* createOne(doc)
createOne(coll, doc) == Append(coll, doc)

\* partialUpdateOne({ user }, update): sets the given fields of the user's
\* document; a filter that matches nothing updates nothing and does not fail.
partialUpdateOne(coll, user, update) ==
    LET i == readOne(coll, user) IN
    IF i = 0 THEN coll
    ELSE [coll EXCEPT ![i] =
            [f \in DOMAIN coll[i] |->
                IF f \in DOMAIN update THEN update[f] ELSE coll[i][f]]]

\* ------------------------------------------------------------ helpers

\* weeklyTasks.find((task) => task.name === taskName): position, 0 for undefined.
find(tasks, taskName) ==
    IF \E i \in 1..Len(tasks) : tasks[i].name = taskName
    THEN CHOOSE i \in 1..Len(tasks) :
            /\ tasks[i].name = taskName
            /\ \A j \in 1..(i - 1) : tasks[j].name # taskName
    ELSE 0

\* The document createTrackingDoc creates.
newDoc(user) ==
    [user |-> user, userGoal |-> "", weeklyTasks |-> << >>, progressHistory |-> << >>]

\* getTrackingDoc(user): the position of the document, 0 when it throws NotFound.
getTrackingDoc(coll, user) == readOne(coll, user)

\* The task createTask builds.
newTask(taskName, taskDescription, reps, sets, startingWeight) ==
    [name |-> taskName, description |-> taskDescription, reps |-> reps,
     sets |-> sets, weight |-> startingWeight, completed |-> FALSE,
     previousDifficulty |-> JustRight]

\* applyUpdate without the "!== undefined" tests: all three fields are assigned.
applyUpdate_assignAll(task, reps, sets, weight) ==
    [task EXCEPT !.reps = reps, !.sets = sets, !.weight = weight]

\* updateTask's three conditional assignments.
applyUpdate(task, reps, sets, weight) ==
    [task EXCEPT
        !.reps = IF reps # undefined THEN reps ELSE @,
        !.sets = IF sets # undefined THEN sets ELSE @,
        !.weight = IF weight # undefined THEN weight ELSE @]

DecreaseWeight == "Consider decreasing the weight by 5 lbs."
DecreaseReps == "Consider decreasing the reps by 2."
IncreaseWeight == "Consider increasing the weight."
IncreaseReps == "Consider increasing the reps."
NoChanges == "No changes suggested!"

\* suggestion with the Easy branch written like the Difficult one: no default.
suggestion_noDefault(previousDifficulty, currentDifficulty, goal) ==
    IF previousDifficulty = Difficult /\ currentDifficulty = Difficult
    THEN IF goal = "muscle" \/ goal = "endurance" THEN DecreaseWeight
         ELSE IF goal = "strength" THEN DecreaseReps
         ELSE ""
    ELSE IF previousDifficulty = Easy /\ currentDifficulty = Easy
    THEN IF goal = "strength" THEN IncreaseWeight
         ELSE IF goal = "muscle" \/ goal = "endurance" THEN IncreaseReps
         ELSE ""
    ELSE ""

\* promptChange's suggestion, "" for null.
suggestion(previousDifficulty, currentDifficulty, goal) ==
    IF previousDifficulty = Difficult /\ currentDifficulty = Difficult
    THEN IF goal = "muscle" \/ goal = "endurance" THEN DecreaseWeight
         ELSE IF goal = "strength" THEN DecreaseReps
         ELSE ""
    ELSE IF previousDifficulty = Easy /\ currentDifficulty = Easy
    THEN IF goal = "strength" THEN IncreaseWeight ELSE IncreaseReps
    ELSE ""

\* suggestion || "No changes suggested!"
promptMsg(s) == IF s = "" THEN NoChanges ELSE s

\* completedTasks without the filter: every task of the week is archived.
completedTasks_all(tasks) == tasks

\* weeklyTasks.filter((task) => task.completed)
completedTasks(tasks) == SelectSeq(tasks, LAMBDA t : t.completed)

\* resetTasks that also forgets the reported difficulty.
resetTasks_forgetDifficulty(tasks) ==
    [i \in 1..Len(tasks) |->
        [tasks[i] EXCEPT !.completed = FALSE, !.previousDifficulty = JustRight]]

\* weeklyTasks.map((task) => ({ ...task, completed: false }))
resetTasks(tasks) == [i \in 1..Len(tasks) |-> [tasks[i] EXCEPT !.completed = FALSE]]

\* date.setDate(n) keeps the local time of day, unless the day it lands on
\* does not have that time in the zone: then the time moves forward by the
\* length of the gap.
setDate(date, day, zone) ==
    [day |-> day,
     time |-> IF day = zone.day /\ day # date.day
                 /\ zone.from <= date.time /\ date.time < zone.to
              THEN date.time + (zone.to - zone.from)
              ELSE date.time]

\* getStartOfWeek(date): the date moved back, with setDate, to the Sunday at or
\* before it.
getStartOfWeek(date, zone) == setDate(date, date.day - (date.day % 7), zone)

\* every that is false on an empty list.
every_nonEmpty(tasks) == Len(tasks) > 0 /\ \A i \in 1..Len(tasks) : tasks[i].completed

\* weeklyTasks.every((task) => task.completed)
every(tasks) == \A i \in 1..Len(tasks) : tasks[i].completed

\* ---- number: IEEE 754 doubles, as far as getCompletedPercentage uses them.
\* A positive double is [m |-> <<l0, l1, l2, l3, l4>>, e |-> e]: the 53-bit
\* significand M = l0*Limb^4 + l1*Limb^3 + l2*Limb^2 + l3*Limb + l4 with l0 = 1,
\* and the value M * 2^e.
Limb == 2 ^ 13

\* The next double above: the significand plus one unit in the last place.
ulpUp(x) ==
    LET l == x.m IN
    IF l[5] + 1 < Limb THEN [x EXCEPT !.m = [l EXCEPT ![5] = @ + 1]]
    ELSE IF l[4] + 1 < Limb THEN [x EXCEPT !.m = [l EXCEPT ![5] = 0, ![4] = @ + 1]]
    ELSE IF l[3] + 1 < Limb
    THEN [x EXCEPT !.m = [l EXCEPT ![5] = 0, ![4] = 0, ![3] = @ + 1]]
    ELSE IF l[2] + 1 < Limb
    THEN [x EXCEPT !.m = [l EXCEPT ![5] = 0, ![4] = 0, ![3] = 0, ![2] = @ + 1]]
    ELSE [m |-> <<1, 0, 0, 0, 0>>, e |-> x.e + 1]

\* Round to nearest, ties to even: x is the truncated result, rem / whole the
\* fraction of a unit in the last place that was cut off.
roundNearestEven(x, rem, whole) ==
    IF 2 * rem > whole \/ (2 * rem = whole /\ x.m[5] % 2 = 1) THEN ulpUp(x) ELSE x

\* The least t with k * 2^t >= n.
RECURSIVE doublings(_, _)
doublings(k, n) == IF k >= n THEN 0 ELSE 1 + doublings(2 * k, n)

\* completedTasks / totalTasks as a double, for 0 < k <= n.
fdiv(k, n) ==
    LET t == doublings(k, n)
        r0 == k * (2 ^ t) - n
        d1 == (r0 * Limb) \div n
        r1 == (r0 * Limb) % n
        d2 == (r1 * Limb) \div n
        r2 == (r1 * Limb) % n
        d3 == (r2 * Limb) \div n
        r3 == (r2 * Limb) % n
        d4 == (r3 * Limb) \div n
        r4 == (r3 * Limb) % n
    IN roundNearestEven([m |-> <<1, d1, d2, d3, d4>>, e |-> 0 - 52 - t], r4, n)

\* x * 100 as a double.
fmul100(x) ==
    LET l == x.m
        p5 == l[5] * 100
        p4 == l[4] * 100 + (p5 \div Limb)
        p3 == l[3] * 100 + (p4 \div Limb)
        p2 == l[2] * 100 + (p3 \div Limb)
        p1 == l[1] * 100 + (p2 \div Limb)
        s == IF p1 >= 128 THEN 7 ELSE 6
        w == 2 ^ s
        c2 == (p1 % w) * Limb + (p2 % Limb)
        c3 == (c2 % w) * Limb + (p3 % Limb)
        c4 == (c3 % w) * Limb + (p4 % Limb)
        c5 == (c4 % w) * Limb + (p5 % Limb)
    IN roundNearestEven(
          [m |-> <<p1 \div w, c2 \div w, c3 \div w, c4 \div w, c5 \div w>>, e |-> x.e + s],
          c5 % w, w)

\* Math.round(x) for a double 0 < x < 2^26: the nearest integer, halves up.
MathRound(x) ==
    LET top == x.m[1] * Limb * Limb + x.m[2] * Limb + x.m[3]
        sh == (0 - x.e) - 1 - 26
        halves == IF sh > 27 THEN 0 ELSE top \div (2 ^ sh)
    IN (halves + 1) \div 2

\* getCompletedPercentage's value, in hundredths of a percent: the double it
\* returns is the one nearest to this many hundredths.
percentage(tasks) ==
    LET completed == Len(completedTasks(tasks))
        totalTasks == Len(tasks)
    IN
    IF totalTasks = 0 THEN 0
    ELSE IF completed = 0 THEN 0
    ELSE MathRound(fmul100(fmul100(fdiv(completed, totalTasks))))

\* ------------------------------------------------------------ requests

NoArgs == <<undefined, undefined, undefined>>
NoDate == [day |-> 0, time |-> 0]

\* What a request returned: the number of the request, the request, and the
\* error thrown or the message, value and flag of the response.
Reply(id, op, user, taskName, args, str, error, msg, value, flag) ==
    [id |-> id, op |-> op, user |-> user, taskName |-> taskName, args |-> args,
     str |-> str, error |-> error, msg |-> msg, value |-> value, flag |-> flag]

\* A request in flight: its handler is suspended at the await named by pc, and
\* found is the collection as its last readOne saw it.
Call(id, op, user, taskName, args, str, date, pc, found) ==
    [id |-> id, op |-> op, user |-> user, taskName |-> taskName, args |-> args,
     str |-> str, date |-> date, pc |-> pc, found |-> found]

NoPrior == [found |-> << >>, appliedTo |-> << >>]

Init ==
    /\ tracking = << >>
    /\ last = Reply(0, "init", "", "", NoArgs, "", NoError, "", 0, FALSE)
    /\ ackGoal = [u \in Users |-> NoGoal]
    /\ steps = 0
    /\ prior = NoPrior
    /\ calls = << >>
    /\ points = << >>
    /\ TZ \in TimeZones

\* A request arrives and runs up to its first await of the store.
Arrive ==
    /\ steps < MaxSteps
    /\ steps' = steps + 1
    /\ UNCHANGED <<points, TZ>>

\* The request is answered by the step of its arrival.
Answer(reply) ==
    /\ last' = reply
    /\ prior' = [found |-> tracking, appliedTo |-> tracking]
    /\ UNCHANGED calls

\* The handler is suspended at an await; other requests may be served meanwhile.
Suspend(call) ==
    /\ Len(calls) < MaxCalls
    /\ calls' = Append(calls, call)
    /\ UNCHANGED <<last, prior>>

\* The k-th request in flight is resumed at its await.
Resume(k, pc) ==
    /\ k \in 1..Len(calls)
    /\ calls[k].pc = pc
    /\ UNCHANGED <<steps, points, TZ>>

WithoutCall(k) == [j \in 1..(Len(calls) - 1) |-> IF j < k THEN calls[j] ELSE calls[j + 1]]

\* The k-th request in flight is answered; found is the collection as its last
\* readOne saw it.
Return(k, found, reply) ==
    /\ last' = reply
    /\ prior' = [found |-> found, appliedTo |-> tracking]
    /\ calls' = WithoutCall(k)

ReplyTo(c, error, msg, flag) ==
    Reply(c.id, c.op, c.user, c.taskName, c.args, c.str, error, msg, 0, flag)

\* The document of the request as its readOne returned it.
docFound(c) == c.found[readOne(c.found, c.user)]

\* new ObjectId(userId) throws on a string that is not an object id.
BSONError == "BSONError"
UserIds == Users \cup {"not an id"}
isObjectId(userId) == userId \in Users

\* createTrackingDoc's createOne that stores nothing.
created_nothing(coll, user) == coll

\* createTrackingDoc: await this.tracking.createOne(newDoc)
created(coll, user) == createOne(coll, newDoc(user))

ProfileCreated == "Tracking profile created successfully!"

\* POST /tracking/profile, up to the first readOne of createTrackingDoc.
createTrackingDoc(userId) ==
    /\ Arrive
    /\ UNCHANGED <<tracking, ackGoal>>
    /\ IF ~ isObjectId(userId)
       THEN Answer(Reply(steps + 1, "createTrackingDoc", userId, "", NoArgs, "",
                         BSONError, "", 0, FALSE))
       ELSE IF readOne(tracking, userId) # 0
       THEN Answer(Reply(steps + 1, "createTrackingDoc", userId, "", NoArgs, "",
                         NoError, ProfileCreated, 0, FALSE))
       ELSE Suspend(Call(steps + 1, "createTrackingDoc", userId, "", NoArgs, "",
                         NoDate, "createOne", tracking))

\* createTrackingDoc, resumed: the createOne of the new document.
createTrackingDocCreateOne(k) ==
    /\ Resume(k, "createOne")
    /\ tracking' = created(tracking, calls[k].user)
    /\ calls' = [calls EXCEPT ![k].pc = "readOne"]
    /\ UNCHANGED <<last, prior, ackGoal>>

TaskCreated == "Task created successfully!"
TaskNotCreated == "Task creation was unsuccessful."

\* createTrackingDoc, resumed: the readOne after createOne. The profile route
\* answers; createTask pushes its task and goes on to partialUpdateOne.
createTrackingDocReadOne(k) ==
    /\ Resume(k, "readOne")
    /\ UNCHANGED <<tracking, ackGoal>>
    /\ IF calls[k].op = "createTrackingDoc"
       THEN Return(k, tracking, ReplyTo(calls[k], NoError, ProfileCreated, FALSE))
       ELSE IF readOne(tracking, calls[k].user) = 0
       THEN Return(k, tracking, ReplyTo(calls[k], NoError, TaskNotCreated, FALSE))
       ELSE /\ calls' = [calls EXCEPT ![k] =
                            [@ EXCEPT !.pc = "partialUpdateOne", !.found = tracking]]
            /\ UNCHANGED <<last, prior>>

\* POST /tracking/tasks, up to the first readOne of createTrackingDoc.
createTask(user, taskName, taskDescription, reps, sets, startingWeight) ==
    /\ Arrive
    /\ UNCHANGED <<tracking, ackGoal>>
    /\ Suspend(Call(steps + 1, "createTask", user, taskName, <<reps, sets, startingWeight>>,
                    taskDescription, NoDate,
                    IF readOne(tracking, user) = 0 THEN "createOne" ELSE "partialUpdateOne",
                    tracking))

\* createTask, resumed: the partialUpdateOne of the list with the task pushed.
createTaskWrite(k) ==
    LET c == calls[k]
        task == newTask(c.taskName, c.str, c.args[1], c.args[2], c.args[3])
    IN
    /\ Resume(k, "partialUpdateOne")
    /\ c.op = "createTask"
    /\ tracking' = partialUpdateOne(tracking, c.user,
                      [weeklyTasks |-> Append(docFound(c).weeklyTasks, task)])
    /\ Return(k, c.found, ReplyTo(c, NoError, TaskCreated, FALSE))
    /\ UNCHANGED ackGoal

\* Replaces the element at position i of a task list.
setTask(tasks, i, task) == [tasks EXCEPT ![i] = task]

\* getTrackingDoc or find threw NotFoundError.
NotFound(op, user, taskName, args, str) ==
    Answer(Reply(steps + 1, op, user, taskName, args, str, NotFoundError, "", 0, FALSE))

\* The request found its document and, where it names a task, the task.
Found(user, taskName) ==
    /\ getTrackingDoc(tracking, user) # 0
    /\ find(tracking[getTrackingDoc(tracking, user)].weeklyTasks, taskName) # 0

\* PATCH /tracking/tasks/:taskName, up to getTrackingDoc and find.
updateTask(user, taskName, reps, sets, weight) ==
    /\ Arrive
    /\ UNCHANGED <<tracking, ackGoal>>
    /\ IF Found(user, taskName)
       THEN Suspend(Call(steps + 1, "updateTask", user, taskName, <<reps, sets, weight>>,
                         "", NoDate, "partialUpdateOne", tracking))
       ELSE NotFound("updateTask", user, taskName, <<reps, sets, weight>>, "")

TaskUpdated == "Task updated successfully!"

\* updateTask, resumed: the partialUpdateOne of the list it read.
updateTaskWrite(k) ==
    LET c == calls[k]
        tasks == docFound(c).weeklyTasks
        i == find(tasks, c.taskName)
    IN
    /\ Resume(k, "partialUpdateOne")
    /\ c.op = "updateTask"
    /\ tracking' = partialUpdateOne(tracking, c.user,
          [weeklyTasks |->
              setTask(tasks, i, applyUpdate(tasks[i], c.args[1], c.args[2], c.args[3]))])
    /\ Return(k, c.found, ReplyTo(c, NoError, TaskUpdated, FALSE))
    /\ UNCHANGED ackGoal

\* weeklyTasks.filter((task) => task.name !== taskName)
withoutName(tasks, taskName) == SelectSeq(tasks, LAMBDA t : t.name # taskName)

\* DELETE /tracking/tasks/:taskName, up to getTrackingDoc.
deleteTask(user, taskName) ==
    /\ Arrive
    /\ UNCHANGED <<tracking, ackGoal>>
    /\ IF getTrackingDoc(tracking, user) # 0
       THEN Suspend(Call(steps + 1, "deleteTask", user, taskName, NoArgs, "", NoDate,
                         "partialUpdateOne", tracking))
       ELSE NotFound("deleteTask", user, taskName, NoArgs, "")

TaskDeleted == "Task successfully deleted!"

\* deleteTask, resumed: the partialUpdateOne of the filtered list.
deleteTaskWrite(k) ==
    LET c == calls[k] IN
    /\ Resume(k, "partialUpdateOne")
    /\ c.op = "deleteTask"
    /\ tracking' = partialUpdateOne(tracking, c.user,
          [weeklyTasks |-> withoutName(docFound(c).weeklyTasks, c.taskName)])
    /\ Return(k, c.found, ReplyTo(c, NoError, TaskDeleted, FALSE))
    /\ UNCHANGED ackGoal

GoalUpdated == "User goal successfully updated!"

\* POST /tracking/goal: one partialUpdateOne, no read.
setUserGoal(user, goal) ==
    /\ Arrive
    /\ tracking' = partialUpdateOne(tracking, user, [userGoal |-> goal])
    /\ Answer(Reply(steps + 1, "setUserGoal", user, "", NoArgs, goal, NoError,
                    GoalUpdated, 0, FALSE))
    /\ ackGoal' = [ackGoal EXCEPT ![user] = goal]

\* toggle that marks the task completed whatever it was.
toggle_markCompleted(task) == [task EXCEPT !.completed = TRUE]

\* task.completed = !task.completed
toggle(task) == [task EXCEPT !.completed = ~@]

\* `Task '${taskName}' marked as ${task.completed ? "completed" : "incomplete"}!`
markedMsg(taskName, completed) ==
    "Task '" \o taskName \o "' marked as "
        \o (IF completed THEN "completed" ELSE "incomplete") \o "!"

\* POST /tracking/tasks/:taskName/completed, up to getTrackingDoc and find.
setCompleted(user, taskName) ==
    /\ Arrive
    /\ UNCHANGED <<tracking, ackGoal>>
    /\ IF Found(user, taskName)
       THEN Suspend(Call(steps + 1, "setCompleted", user, taskName, NoArgs, "", NoDate,
                         "partialUpdateOne", tracking))
       ELSE NotFound("setCompleted", user, taskName, NoArgs, "")

\* setCompleted, resumed: the partialUpdateOne of the list it read.
setCompletedWrite(k) ==
    LET c == calls[k]
        tasks == docFound(c).weeklyTasks
        i == find(tasks, c.taskName)
    IN
    /\ Resume(k, "partialUpdateOne")
    /\ c.op = "setCompleted"
    /\ tracking' = partialUpdateOne(tracking, c.user,
          [weeklyTasks |-> setTask(tasks, i, toggle(tasks[i]))])
    /\ Return(k, c.found, ReplyTo(c, NoError, markedMsg(c.taskName, toggle(tasks[i]).completed),
                         toggle(tasks[i]).completed))
    /\ UNCHANGED ackGoal

\* tasksCompleted: one readOne, no write.
tasksCompleted(user) ==
    LET d == getTrackingDoc(tracking, user) IN
    /\ Arrive
    /\ UNCHANGED <<tracking, ackGoal>>
    /\ IF d = 0 THEN NotFound("tasksCompleted", user, "", NoArgs, "")
       ELSE Answer(Reply(steps + 1, "tasksCompleted", user, "", NoArgs, "", NoError, "",
                         0, every(tracking[d].weeklyTasks)))

\* task.previousDifficulty = currentDifficulty
recordDifficulty(task, currentDifficulty) ==
    [task EXCEPT !.previousDifficulty = currentDifficulty]

\* POST /tracking/tasks/:taskName/prompt, up to getTrackingDoc and find.
promptChange(user, taskName, currentDifficulty) ==
    /\ Arrive
    /\ UNCHANGED <<tracking, ackGoal>>
    /\ IF Found(user, taskName)
       THEN Suspend(Call(steps + 1, "promptChange", user, taskName, NoArgs,
                         currentDifficulty, NoDate, "partialUpdateOne", tracking))
       ELSE NotFound("promptChange", user, taskName, NoArgs, currentDifficulty)

\* promptChange, resumed: the partialUpdateOne of the list it read, and the
\* suggestion it chose from the task and the goal it read.
promptChangeWrite(k) ==
    LET c == calls[k]
        tasks == docFound(c).weeklyTasks
        i == find(tasks, c.taskName)
    IN
    /\ Resume(k, "partialUpdateOne")
    /\ c.op = "promptChange"
    /\ tracking' = partialUpdateOne(tracking, c.user,
          [weeklyTasks |-> setTask(tasks, i, recordDifficulty(tasks[i], c.str))])
    /\ Return(k, c.found, ReplyTo(c, NoError,
                         promptMsg(suggestion(tasks[i].previousDifficulty, c.str,
                                              docFound(c).userGoal)),
                         FALSE))
    /\ UNCHANGED ackGoal

\* The entry resetWeeklyTasks pushes onto progressHistory.
progressEntry(tasks, date, zone) ==
    [weekStart |-> getStartOfWeek(date, zone),
     completedTasks |-> completedTasks(tasks)]

\* progressHistory.push(entry)
archive(history, entry) == Append(history, entry)

ResetDone == "Weekly tasks reset and progress archived!"

\* POST /tracking/tasks/reset, up to getTrackingDoc; date is new Date().
resetWeeklyTasks(user, date) ==
    /\ Arrive
    /\ UNCHANGED <<tracking, ackGoal>>
    /\ IF getTrackingDoc(tracking, user) # 0
       THEN Suspend(Call(steps + 1, "resetWeeklyTasks", user, "", NoArgs, "", date,
                         "partialUpdateOne", tracking))
       ELSE NotFound("resetWeeklyTasks", user, "", NoArgs, "")

\* resetWeeklyTasks, resumed: the partialUpdateOne of the list and the history
\* it read.
resetWeeklyTasksWrite(k) ==
    LET c == calls[k] IN
    /\ Resume(k, "partialUpdateOne")
    /\ c.op = "resetWeeklyTasks"
    /\ tracking' = partialUpdateOne(tracking, c.user,
          [weeklyTasks |-> resetTasks(docFound(c).weeklyTasks),
           progressHistory |->
              archive(docFound(c).progressHistory,
                      progressEntry(docFound(c).weeklyTasks, c.date, TZ))])
    /\ Return(k, c.found, ReplyTo(c, NoError, ResetDone, FALSE))
    /\ UNCHANGED ackGoal

\* GET /tracking/percentage: one readOne, no write.
getCompletedPercentage(user) ==
    LET d == getTrackingDoc(tracking, user) IN
    /\ Arrive
    /\ UNCHANGED <<tracking, ackGoal>>
    /\ IF d = 0 THEN NotFound("getCompletedPercentage", user, "", NoArgs, "")
       ELSE Answer(Reply(steps + 1, "getCompletedPercentage", user, "", NoArgs, "",
                         NoError, "Percentage of tasks completed",
                         percentage(tracking[d].weeklyTasks), FALSE))

Next ==
    \/ \E userId \in UserIds : createTrackingDoc(userId)
    \/ \E k \in 1..Len(calls) : createTrackingDocCreateOne(k)
    \/ \E k \in 1..Len(calls) : createTrackingDocReadOne(k)
    \/ \E user \in Users, taskName \in TaskNames, d \in Descriptions, a \in CreateArgs :
            createTask(user, taskName, d, a[1], a[2], a[3])
    \/ \E k \in 1..Len(calls) : createTaskWrite(k)
    \/ \E user \in Users, taskName \in TaskNames, a \in UpdateArgs :
            updateTask(user, taskName, a[1], a[2], a[3])
    \/ \E k \in 1..Len(calls) : updateTaskWrite(k)
    \/ \E user \in Users, taskName \in TaskNames : deleteTask(user, taskName)
    \/ \E k \in 1..Len(calls) : deleteTaskWrite(k)
    \/ \E user \in Users, goal \in Goals : setUserGoal(user, goal)
    \/ \E user \in Users, taskName \in TaskNames : setCompleted(user, taskName)
    \/ \E k \in 1..Len(calls) : setCompletedWrite(k)
    \/ \E user \in Users : tasksCompleted(user)
    \/ \E user \in Users, taskName \in TaskNames, c \in Difficulty :
            promptChange(user, taskName, c)
    \/ \E k \in 1..Len(calls) : promptChangeWrite(k)
    \/ \E user \in Users, date \in Dates : resetWeeklyTasks(user, date)
    \/ \E k \in 1..Len(calls) : resetWeeklyTasksWrite(k)
    \/ \E user \in Users : getCompletedPercentage(user)

Spec == Init /\ [][Next]_vars

\* ------------------------------------------------------------ properties

HasDoc(coll, user) == readOne(coll, user) # 0
DocOf(coll, user) == coll[readOne(coll, user)]
TasksOf(coll, user) == DocOf(coll, user).weeklyTasks

\* This step answers the request op of the user, without an error.
Returned(op, user) ==
    last'.id # last.id /\ last'.op = op /\ last'.user = user /\ last'.error = NoError

\* The last request answered was op of the user, without an error.
HasReturned(op, user) == last.op = op /\ last.user = user /\ last.error = NoError

\* The request answered by this step was the single writer of the collection:
\* its write is applied to the collection as its read found it.
Alone == prior'.found = tracking

\* The last request answered was the single writer of the collection.
WasAlone == prior.found = prior.appliedTo

\* C1: progressHistory is append-only. A successful resetWeeklyTasks lengthens
\* it by exactly one entry, at the end, whose completedTasks are the tasks of
\* weeklyTasks that were completed just before the call, in list order; every
\* other step leaves the history as it was, and no step removes a record. The
\* requests are those of a sequence of operations: each is the single writer
\* of the record between its read and its write.
C1_HistoryAppendOnly ==
    [][\A u \in Users :
        HasDoc(tracking, u) =>
            /\ HasDoc(tracking', u)
            /\ LET before == DocOf(tracking, u)
                   after == DocOf(tracking', u)
                   n == Len(before.progressHistory)
               IN
               IF Returned("resetWeeklyTasks", u)
               THEN Alone =>
                    /\ Len(after.progressHistory) = n + 1
                    /\ SubSeq(after.progressHistory, 1, n) = before.progressHistory
                    /\ after.progressHistory[n + 1].completedTasks
                         = SelectSeq(before.weeklyTasks, LAMBDA t : t.completed = TRUE)
               ELSE after.progressHistory = before.progressHistory]_vars

\* A second reset has been answered, each reset the single writer: the first
\* entry, with its one completed task, is still first, and the second is empty.
C1_Witness ==
    \E u \in Users :
        /\ HasReturned("resetWeeklyTasks", u)
        /\ WasAlone
        /\ HasDoc(tracking, u)
        /\ Len(DocOf(tracking, u).weeklyTasks) = 1
        /\ Len(DocOf(tracking, u).progressHistory) = 2
        /\ Len(DocOf(tracking, u).progressHistory[1].completedTasks) = 1
        /\ Len(DocOf(tracking, u).progressHistory[2].completedTasks) = 0

\* C2: after a successful resetWeeklyTasks, served as the single writer of the
\* record, every task has completed = false, and the list has the same length
\* and order, every other field of every task and the userGoal being what they
\* were before.
C2_ResetClearsOnlyCompleted ==
    [][\A u \in Users :
        (Returned("resetWeeklyTasks", u) /\ Alone) =>
            LET before == DocOf(tracking, u)
                after == DocOf(tracking', u)
            IN
            /\ Len(after.weeklyTasks) = Len(before.weeklyTasks)
            /\ \A i \in 1..Len(before.weeklyTasks) :
                /\ after.weeklyTasks[i].completed = FALSE
                /\ \A f \in {"name", "description", "reps", "sets", "weight",
                             "previousDifficulty"} :
                        after.weeklyTasks[i][f] = before.weeklyTasks[i][f]
            /\ after.userGoal = before.userGoal]_vars

\* A reset has been answered for a record with a task that was completed (it
\* is in the new entry) and carries a reported difficulty.
C2_Witness ==
    \E u \in Users :
        /\ HasReturned("resetWeeklyTasks", u)
        /\ WasAlone
        /\ Len(DocOf(tracking, u).weeklyTasks) = 1
        /\ DocOf(tracking, u).weeklyTasks[1].previousDifficulty = Easy
        /\ DocOf(tracking, u).weeklyTasks[1].completed = FALSE
        /\ Len(DocOf(tracking, u).progressHistory[1].completedTasks) = 1

\* The suggestion table of the specification.
C3_Table(p, c, g) ==
    CASE p = Difficult /\ c = Difficult /\ g \in {"muscle", "endurance"} -> DecreaseWeight
      [] p = Difficult /\ c = Difficult /\ g = "strength" -> DecreaseReps
      [] p = Easy /\ c = Easy /\ g = "strength" -> IncreaseWeight
      [] p = Easy /\ c = Easy /\ g # "strength" -> IncreaseReps
      [] OTHER -> NoChanges

\* C3: promptChange on an existing task returns the message the table gives for
\* the previousDifficulty and the userGoal stored when the request read the
\* record, and the reported difficulty.
C3_SuggestionTable ==
    [][\A u \in Users :
        Returned("promptChange", u) =>
            LET before == DocOf(prior'.found, u)
                task == before.weeklyTasks[find(before.weeklyTasks, last'.taskName)]
            IN last'.msg = C3_Table(task.previousDifficulty, last'.str, before.userGoal)]_vars

\* Easy twice in a row with no goal set: the reps-increase suggestion.
C3_Witness ==
    \E u \in Users :
        /\ HasReturned("promptChange", u)
        /\ WasAlone
        /\ last.str = Easy
        /\ DocOf(tracking, u).userGoal = ""
        /\ last.msg = IncreaseReps

\* C4: after a successful promptChange the task with that name has the reported
\* difficulty as its previousDifficulty; a task created by createTask starts at
\* JustRight; and updateTask, setCompleted, resetWeeklyTasks and setUserGoal
\* leave the previousDifficulty of every task as it was. Each request is the
\* single writer of the record between its read and its write.
C4_LastReportedDifficulty ==
    [][\A u \in Users :
        /\ (Returned("promptChange", u) /\ Alone) =>
              \A i \in 1..Len(TasksOf(tracking', u)) :
                  TasksOf(tracking', u)[i].name = last'.taskName =>
                      TasksOf(tracking', u)[i].previousDifficulty = last'.str
        /\ (Returned("createTask", u) /\ last'.msg = TaskCreated) =>
              TasksOf(tracking', u)[Len(TasksOf(tracking', u))].previousDifficulty
                  = JustRight
        /\ (/\ HasDoc(tracking, u)
            /\ last'.id # last.id
            /\ Alone
            /\ last'.op \in {"updateTask", "setCompleted", "resetWeeklyTasks",
                             "setUserGoal"}) =>
              /\ Len(TasksOf(tracking', u)) = Len(TasksOf(tracking, u))
              /\ \A i \in 1..Len(TasksOf(tracking, u)) :
                    TasksOf(tracking', u)[i].previousDifficulty
                        = TasksOf(tracking, u)[i].previousDifficulty]_vars

\* C4 with the names of the list distinct before the call: the statement the
\* code satisfies (it overwrites the first task of that name only).
C4_WhenNamesAreUnique ==
    [][\A u \in Users :
        (/\ Returned("promptChange", u)
         /\ Alone
         /\ \A i, j \in 1..Len(TasksOf(tracking, u)) :
                TasksOf(tracking, u)[i].name = TasksOf(tracking, u)[j].name => i = j) =>
            \A i \in 1..Len(TasksOf(tracking', u)) :
                TasksOf(tracking', u)[i].name = last'.taskName =>
                    TasksOf(tracking', u)[i].previousDifficulty = last'.str]_vars

\* C5: a successful updateTask, served as the single writer of the record,
\* changes, on the task with that name, only those of reps, sets and weight
\* that were provided; every other field of the task, every other task, the
\* userGoal and the progressHistory are unchanged.
C5_UpdateTaskFrame ==
    [][\A u \in Users :
        (Returned("updateTask", u) /\ Alone) =>
            LET before == DocOf(tracking, u)
                after == DocOf(tracking', u)
                i == find(before.weeklyTasks, last'.taskName)
                old == before.weeklyTasks[i]
                new == after.weeklyTasks[i]
            IN
            /\ Len(after.weeklyTasks) = Len(before.weeklyTasks)
            /\ \A j \in 1..Len(before.weeklyTasks) :
                    j # i => after.weeklyTasks[j] = before.weeklyTasks[j]
            /\ old.name = last'.taskName
            /\ \A f \in {"name", "description", "completed", "previousDifficulty"} :
                    new[f] = old[f]
            /\ last'.args[1] = undefined => new.reps = old.reps
            /\ last'.args[2] = undefined => new.sets = old.sets
            /\ last'.args[3] = undefined => new.weight = old.weight
            /\ last'.args[1] # undefined => new.reps = last'.args[1]
            /\ last'.args[2] # undefined => new.sets = last'.args[2]
            /\ last'.args[3] # undefined => new.weight = last'.args[3]
            /\ after.userGoal = before.userGoal
            /\ after.progressHistory = before.progressHistory]_vars

\* An updateTask that gave sets only has been answered: sets is the new value,
\* reps and weight are the values of createTask.
C5_Witness ==
    \E u \in Users :
        /\ HasReturned("updateTask", u)
        /\ WasAlone
        /\ last.args = <<undefined, 2, undefined>>
        /\ \E i \in 1..Len(TasksOf(tracking, u)) :
              /\ TasksOf(tracking, u)[i].name = last.taskName
              /\ TasksOf(tracking, u)[i].sets = 2
              /\ TasksOf(tracking, u)[i].reps = 2
              /\ TasksOf(tracking, u)[i].weight = 0

\* C6: no two tasks of a user's weeklyTasks share a name.
C6_UniqueTaskNames ==
    \A u \in Users :
        HasDoc(tracking, u) =>
            \A i, j \in 1..Len(TasksOf(tracking, u)) :
                TasksOf(tracking, u)[i].name = TasksOf(tracking, u)[j].name => i = j

\* C7 as stated: createTask, setGoal, resetWeeklyTasks and completionPercentage
\* return a normal result in every state, a user without a record included.
C7_NeverFail ==
    last.op \in {"createTask", "setUserGoal", "resetWeeklyTasks", "getCompletedPercentage"}
        => last.error = NoError

\* C7, amended: createTask and setGoal return their success message in every
\* state; resetWeeklyTasks and completionPercentage return a normal result when
\* the user has a tracking record and fail with NotFound when the user has none.
C7_FailOnlyWithoutRecord ==
    [][\A u \in Users :
        last'.id # last.id =>
        /\ (last'.op = "createTask" /\ last'.user = u) =>
              last'.error = NoError /\ last'.msg = TaskCreated
        /\ (last'.op = "setUserGoal" /\ last'.user = u) =>
              last'.error = NoError /\ last'.msg = GoalUpdated
        /\ (last'.op \in {"resetWeeklyTasks", "getCompletedPercentage"} /\ last'.user = u) =>
              /\ HasDoc(prior'.found, u) => last'.error = NoError /\ last'.msg # ""
              /\ ~HasDoc(prior'.found, u) => last'.error = NotFoundError]_vars

\* createTask has created the record of a user who had none, and returned its
\* success message.
C7_Witness ==
    \E u \in Users :
        /\ HasReturned("createTask", u)
        /\ steps = 1
        /\ last.msg = TaskCreated
        /\ Len(tracking) = 1
        /\ Len(TasksOf(tracking, u)) = 1

\* C8: the userGoal of a user's record is the goal of the last setGoal that
\* returned its success message, also when the record was created after it.
C8_GoalIsLastSet ==
    \A u \in Users :
        (ackGoal[u] # NoGoal /\ HasDoc(tracking, u)) =>
            DocOf(tracking, u).userGoal = ackGoal[u]

\* C9 as stated: allTasksCompleted is true iff weeklyTasks is non-empty and
\* every task in it is completed.
C9_TrueIffNonEmptyAndAllCompleted ==
    \A u \in Users :
        HasReturned("tasksCompleted", u) =>
            (last.flag <=>
                /\ Len(TasksOf(prior.found, u)) > 0
                /\ \A i \in 1..Len(TasksOf(prior.found, u)) :
                      TasksOf(prior.found, u)[i].completed)

\* C9, amended: allTasksCompleted is true iff no task of weeklyTasks is
\* uncompleted; in particular it is true when weeklyTasks is empty.
C9_TrueIffNoneUncompleted ==
    \A u \in Users :
        HasReturned("tasksCompleted", u) =>
            /\ last.flag <=>
                  ~ \E i \in 1..Len(TasksOf(prior.found, u)) :
                        TasksOf(prior.found, u)[i].completed = FALSE
            /\ Len(TasksOf(prior.found, u)) = 0 => last.flag = TRUE

\* allTasksCompleted has returned true for a record with no task.
C9_Witness ==
    \E u \in Users :
        /\ HasReturned("tasksCompleted", u)
        /\ Len(TasksOf(prior.found, u)) = 0
        /\ last.flag = TRUE

\* C11: a successful toggleCompleted, served as the single writer of the
\* record, flips the completed flag of the task with that name and changes
\* nothing else; a second successful toggleCompleted of the same name, answered
\* next after the first with no other write in between, leaves the record as
\* it was before the first.
C11_ToggleInvolution ==
    [][\A u \in Users :
        (Returned("setCompleted", u) /\ Alone) =>
            LET old == DocOf(tracking, u)
                new == DocOf(tracking', u)
                i == find(old.weeklyTasks, last'.taskName)
            IN
            /\ Len(tracking') = Len(tracking)
            /\ new.weeklyTasks =
                  [old.weeklyTasks EXCEPT ![i].completed = ~ old.weeklyTasks[i].completed]
            /\ old.weeklyTasks[i].name = last'.taskName
            /\ new.userGoal = old.userGoal
            /\ new.progressHistory = old.progressHistory
            /\ last'.msg = markedMsg(last'.taskName, new.weeklyTasks[i].completed)
            /\ (HasReturned("setCompleted", u) /\ WasAlone
                    /\ last.taskName = last'.taskName) =>
                  /\ new = DocOf(prior.found, u)
                  /\ last'.flag = ~ last.flag]_vars

\* createTask, then toggleCompleted twice, one after the other: the task is
\* uncompleted again.
C11_Witness ==
    \E u \in Users :
        /\ HasReturned("setCompleted", u)
        /\ WasAlone
        /\ steps = 3
        /\ calls = << >>
        /\ last.flag = FALSE
        /\ last.msg = "Task 'squat' marked as incomplete!"
        /\ Len(TasksOf(tracking, u)) = 1
        /\ TasksOf(tracking, u)[1].completed = FALSE
        /\ TasksOf(prior.found, u)[1].completed = TRUE


\* ------------------------------------------------------------ percentages

\* getCompletedPercentage on records with given numbers of tasks and of
\* completed tasks.
PctMaxTasks == 12

\* Names of the completed tasks: setCompleted reaches only the first task of a
\* name, so completed tasks have distinct names.
PctNames ==
    <<"t01", "t02", "t03", "t04", "t05", "t06", "t07", "t08", "t09", "t10", "t11", "t12",
      "t13", "t14", "t15", "t16", "t17", "t18", "t19", "t20", "t21", "t22", "t23">>

\* <<total, completed>> of the records to start from.
PctCases ==
    {c \in (0..PctMaxTasks) \X (0..PctMaxTasks) : c[2] <= c[1]}
        \cup {<<32, 1>>, <<160, 23>>}

\* n tasks, the first k of them completed.
PctTasks(n, k) ==
    [i \in 1..n |->
        [newTask(IF i <= k THEN PctNames[i] ELSE PctNames[1], "desc", 2, undefined, 0)
            EXCEPT !.completed = (i <= k)]]

PctInit ==
    /\ \E c \in PctCases, user \in Users :
          tracking = << [newDoc(user) EXCEPT !.weeklyTasks = PctTasks(c[1], c[2])] >>
    /\ last = Reply(0, "init", "", "", NoArgs, "", NoError, "", 0, FALSE)
    /\ ackGoal = [u \in Users |-> NoGoal]
    /\ steps = 0
    /\ prior = NoPrior
    /\ calls = << >>
    /\ points = << >>
    /\ TZ = UTC

PctNext ==
    \/ \E user \in Users : getCompletedPercentage(user)
    \/ \E user \in Users : tasksCompleted(user)

PctSpec == PctInit /\ [][PctNext]_vars

\* C10: with N tasks of which K are completed, completionPercentage returns 0
\* when N = 0 and otherwise 100*K/N rounded to two decimal places, that is v/100
\* for the integer v nearest to 10000*K/N (halves up); the value is within
\* 0..100, and is 100 exactly when K = N.
C10_RoundedPercentage ==
    \A u \in Users :
        HasReturned("getCompletedPercentage", u) =>
            LET N == Len(TasksOf(tracking, u))
                K == Cardinality({i \in 1..N : TasksOf(tracking, u)[i].completed})
                v == last.value
            IN
            /\ N = 0 => v = 0
            /\ N > 0 =>
                /\ 2 * N * v - N <= 20000 * K
                /\ 20000 * K < 2 * N * v + N
                /\ 0 <= v /\ v <= 10000
                /\ v = 10000 <=> K = N

\* ------------------------------------------------------------ interleaved createTask

\* createTask requests of two users in flight, each kept after it has been
\* answered, with the times of its read and of its write. Each await of
\* createTask and of the createTrackingDoc it calls is one step; the code
\* between two awaits runs without interruption.

RaceUsers == {"u1", "u2"}

\* The description of the k-th request's task, which tells the tasks apart.
RaceDescriptions == <<"first", "second", "third", "fourth">>

\* writtenTasks as an atomic push of the new task onto the stored list.
writtenTasks_push(stored, local) == Append(stored, local[Len(local)])

\* What createTask passes to partialUpdateOne: the whole list it read, with its
\* own task pushed.
writtenTasks(stored, local) == local

\* The message TrackingConcept.createTask returns; the route replaces it.
TaskSuccessfullyCreated == "Task successfully created!"

RaceInit ==
    /\ tracking = << >>
    /\ last = Reply(0, "init", "", "", NoArgs, "", NoError, "", 0, FALSE)
    /\ ackGoal = [u \in Users |-> NoGoal]
    /\ steps = 0
    /\ prior = NoPrior
    /\ calls = << >>
    /\ points = << >>
    /\ TZ = UTC

RaceStep == steps' = steps + 1 /\ UNCHANGED <<last, ackGoal, prior, points, TZ>>

\* A createTask request arrives.
beginCreateTask(user, taskName) ==
    /\ Len(calls) < MaxCalls
    /\ calls' = Append(calls,
          [user |-> user, pc |-> "readOne", tasks |-> << >>, msg |-> "",
           readAt |-> 0, wroteAt |-> 0,
           task |-> newTask(taskName, RaceDescriptions[Len(calls) + 1], 2, undefined, 0)])
    /\ UNCHANGED tracking
    /\ RaceStep

\* trackingDoc.weeklyTasks.push(newTask), on the document just read.
readAndPush(k, d) ==
    [calls EXCEPT ![k] = [@ EXCEPT !.tasks = Append(tracking[d].weeklyTasks, calls[k].task),
                                   !.readAt = steps + 1,
                                   !.pc = "partialUpdateOne"]]

\* createTrackingDoc: let trackingDoc = await this.tracking.readOne({ user })
awaitReadOne(k) ==
    /\ calls[k].pc = "readOne"
    /\ LET d == readOne(tracking, calls[k].user) IN
       calls' = IF d = 0 THEN [calls EXCEPT ![k].pc = "createOne"] ELSE readAndPush(k, d)
    /\ UNCHANGED tracking
    /\ RaceStep

\* createTrackingDoc: await this.tracking.createOne(newDoc)
awaitCreateOne(k) ==
    /\ calls[k].pc = "createOne"
    /\ tracking' = created(tracking, calls[k].user)
    /\ calls' = [calls EXCEPT ![k].pc = "readAgain"]
    /\ RaceStep

\* createTrackingDoc: trackingDoc = await this.tracking.readOne({ user })
awaitReadAgain(k) ==
    /\ calls[k].pc = "readAgain"
    /\ calls' = readAndPush(k, readOne(tracking, calls[k].user))
    /\ UNCHANGED tracking
    /\ RaceStep

\* createTask: await this.tracking.partialUpdateOne({ user }, { weeklyTasks }),
\* and the return of the success message.
awaitPartialUpdateOne(k) ==
    /\ calls[k].pc = "partialUpdateOne"
    /\ tracking' = partialUpdateOne(tracking, calls[k].user,
          [weeklyTasks |->
              writtenTasks(DocOf(tracking, calls[k].user).weeklyTasks, calls[k].tasks)])
    /\ calls' = [calls EXCEPT ![k] = [@ EXCEPT !.pc = "done", !.wroteAt = steps + 1,
                                               !.msg = TaskSuccessfullyCreated]]
    /\ RaceStep

RaceNext ==
    \/ \E user \in RaceUsers, taskName \in TaskNames : beginCreateTask(user, taskName)
    \/ \E k \in 1..Len(calls) : awaitReadOne(k)
    \/ \E k \in 1..Len(calls) : awaitCreateOne(k)
    \/ \E k \in 1..Len(calls) : awaitReadAgain(k)
    \/ \E k \in 1..Len(calls) : awaitPartialUpdateOne(k)

RaceSpec == RaceInit /\ [][RaceNext]_vars

\* The k-th request has returned its success message.
Succeeded(k) == calls[k].pc = "done" /\ calls[k].msg = TaskSuccessfullyCreated

\* The task of the k-th request is in the stored weeklyTasks of its user.
Stored(k) ==
    \E i \in 1..Len(TasksOf(tracking, calls[k].user)) :
        TasksOf(tracking, calls[k].user)[i] = calls[k].task

\* Both requests read the record before either wrote weeklyTasks back.
BothReadBeforeEitherWrote(j, k) ==
    /\ calls[j].readAt < calls[k].wroteAt
    /\ calls[k].readAt < calls[j].wroteAt

\* C12: two createTask requests of one user that both read the record before
\* either wrote it back both return success, and the stored weeklyTasks never
\* holds both new tasks; the task of a request that returned is missing only
\* when a request of the same user read before its write and wrote after it,
\* so requests of different users lose nothing.
C12_LostUpdateSameUserOnly ==
    /\ \A j, k \in 1..Len(calls) :
          (/\ j # k
           /\ Succeeded(j) /\ Succeeded(k)
           /\ calls[j].user = calls[k].user
           /\ BothReadBeforeEitherWrote(j, k)) => ~ (Stored(j) /\ Stored(k))
    /\ \A k \in 1..Len(calls) :
          (Succeeded(k) /\ ~ Stored(k)) =>
              \E j \in 1..Len(calls) :
                  /\ j # k
                  /\ calls[j].user = calls[k].user
                  /\ calls[j].pc = "done"
                  /\ calls[j].readAt < calls[k].wroteAt
                  /\ calls[k].wroteAt < calls[j].wroteAt
    /\ \A k \in 1..Len(calls) : calls[k].pc = "done" => Succeeded(k)

\* Two requests of one user have both returned success, both having read before
\* either wrote, and the stored list holds the task of the second writer only.
C12_Witness ==
    /\ Len(calls) >= 2
    /\ Succeeded(1) /\ Succeeded(2)
    /\ calls[1].user = calls[2].user
    /\ BothReadBeforeEitherWrote(1, 2)
    /\ calls[1].wroteAt < calls[2].wroteAt
    /\ TasksOf(tracking, calls[1].user) = <<calls[2].task>>

\* Two requests of different users have interleaved in the same way and both
\* tasks are stored.
C12_WitnessTwoUsers ==
    /\ Len(calls) >= 2
    /\ Succeeded(1) /\ Succeeded(2)
    /\ calls[1].user # calls[2].user
    /\ BothReadBeforeEitherWrote(1, 2)
    /\ Stored(1) /\ Stored(2)

\* ------------------------------------------------------------ the points ledger

\* A JavaScript number: a finite value n, or one of Infinity, -Infinity, NaN.
finite(n) == [kind |-> "finite", n |-> n]
Infinity == [kind |-> "Infinity", n |-> 0]
NegInfinity == [kind |-> "-Infinity", n |-> 0]
NaN == [kind |-> "NaN", n |-> 0]

\* The amount strings a request may carry.
AmountStrings == {"-2", "-1", "0", "1", "Infinity", "-Infinity", "abc"}

\* Number(amount): the numeric value of the string, NaN when it is not numeric.
Number(amount) ==
    CASE amount = "-2" -> finite(-2)
      [] amount = "-1" -> finite(-1)
      [] amount = "0" -> finite(0)
      [] amount = "" -> finite(0)
      [] amount = "1" -> finite(1)
      [] amount = "Infinity" -> Infinity
      [] amount = "-Infinity" -> NegInfinity
      [] OTHER -> NaN

\* a + b
plus(a, b) ==
    CASE a.kind = "NaN" \/ b.kind = "NaN" -> NaN
      [] a.kind = "finite" /\ b.kind = "finite" -> finite(a.n + b.n)
      [] a.kind = "finite" -> b
      [] b.kind = "finite" -> a
      [] a.kind = b.kind -> a
      [] OTHER -> NaN

\* a < 0 and a >= 0; both are false of NaN.
lessThanZero(a) == (a.kind = "finite" /\ a.n < 0) \/ a.kind = "-Infinity"
atLeastZero(a) == (a.kind = "finite" /\ a.n >= 0) \/ a.kind = "Infinity"

\* The posts a request may name; NoPost is a request without verifiedPost.
Posts == {"p1", "p2"}
NoPost == ""

ExistingUserPointsError == "ExistingUserPointsError"
InvalidPointAwardError == "InvalidPointAwardError"
NotAllowedError == "NotAllowedError"

includes(posts, post) == \E i \in 1..Len(posts) : posts[i] = post

\* verifiedPosts.filter((e) => e.toString() !== verifiedPost.toString())
withoutPost(posts, post) == SelectSeq(posts, LAMBDA e : e # post)

\* deleteOne({ user }): removes the first document of the user, if any.
deleteOne(coll, user) ==
    LET i == readOne(coll, user) IN
    IF i = 0 THEN coll
    ELSE [j \in 1..(Len(coll) - 1) |-> IF j < i THEN coll[j] ELSE coll[j + 1]]

\* The check of verifiedPost in awardPoints: the verifiedPosts to store, or
\* the error thrown.
verify(pointDoc, amount, verifiedPost) ==
    IF verifiedPost = NoPost
    THEN [error |-> NoError, verifiedPosts |-> pointDoc.verifiedPosts]
    ELSE IF atLeastZero(amount) /\ ~ includes(pointDoc.verifiedPosts, verifiedPost)
    THEN [error |-> NoError, verifiedPosts |-> Append(pointDoc.verifiedPosts, verifiedPost)]
    ELSE IF lessThanZero(amount) /\ includes(pointDoc.verifiedPosts, verifiedPost)
    THEN [error |-> NoError, verifiedPosts |-> withoutPost(pointDoc.verifiedPosts, verifiedPost)]
    ELSE [error |-> InvalidPointAwardError, verifiedPosts |-> pointDoc.verifiedPosts]

\* awardPoints without the check of line 52.
awardPoints_unchecked(pointDoc, amount, verifiedPost) ==
    LET v == verify(pointDoc, amount, verifiedPost) IN
    IF v.error # NoError THEN [error |-> v.error, update |-> << >>]
    ELSE [error |-> NoError,
          update |-> [points |-> plus(pointDoc.points, amount),
                      verifiedPosts |-> v.verifiedPosts]]

\* awardPoints on the document found: the error thrown, or the update written.
awardPoints(pointDoc, amount, verifiedPost) ==
    LET v == verify(pointDoc, amount, verifiedPost)
        total == plus(pointDoc.points, amount)
    IN
    IF v.error # NoError THEN [error |-> v.error, update |-> << >>]
    ELSE IF lessThanZero(total) THEN [error |-> NotAllowedError, update |-> << >>]
    ELSE [error |-> NoError,
          update |-> [points |-> total, verifiedPosts |-> v.verifiedPosts]]

\* What a readOne that matches no document returns.
null == << >>

\* readOne({ _id }): the document the store created under that id, if it is
\* still there.
readOneById(coll, id) ==
    IF \E i \in 1..Len(coll) : coll[i]._id = id
    THEN coll[CHOOSE i \in 1..Len(coll) : coll[i]._id = id]
    ELSE null

\* readOne({ user }) as the handler receives it: the document or null.
readOneByUser(coll, user) ==
    IF readOne(coll, user) # 0 THEN coll[readOne(coll, user)] ELSE null

\* The response of a pointing request; result is the document its last readOne
\* returned.
PointReply(id, op, user, amount, verifiedPost, error, msg, result) ==
    [id |-> id, op |-> op, user |-> user, amount |-> amount,
     verifiedPost |-> verifiedPost, error |-> error, msg |-> msg,
     result |-> result]

\* A pointing request in flight, suspended at the await named by pc; found is
\* the document awardPoints read, update is what it goes on to write, and _id
\* is the id createOne returned.
PointCall(id, op, user, amount, verifiedPost, pc, found, update, docId) ==
    [id |-> id, op |-> op, user |-> user, amount |-> amount,
     verifiedPost |-> verifiedPost, pc |-> pc, found |-> found,
     update |-> update, _id |-> docId]

NoId == 0

PointInit ==
    /\ tracking = << >>
    /\ last = PointReply(0, "init", "", "", NoPost, NoError, "", null)
    /\ ackGoal = [u \in Users |-> NoGoal]
    /\ steps = 0
    /\ prior = NoPrior
    /\ calls = << >>
    /\ points = << >>
    /\ TZ = UTC

\* A pointing request arrives and runs up to its first await.
PointArrive ==
    /\ steps < MaxSteps
    /\ steps' = steps + 1
    /\ UNCHANGED <<tracking, ackGoal, prior, TZ>>

\* The request is answered without having been suspended.
PointAnswer(reply) == last' = reply /\ UNCHANGED calls

\* The request is suspended at an await.
PointSuspend(call) ==
    /\ Len(calls) < MaxCalls
    /\ calls' = Append(calls, call)
    /\ UNCHANGED last

\* The k-th pointing request in flight is resumed at the await named by pc.
PointResume(k, op, pc) ==
    /\ k \in 1..Len(calls)
    /\ calls[k].op = op
    /\ calls[k].pc = pc
    /\ UNCHANGED <<tracking, ackGoal, prior, steps, TZ>>

\* The resumed request runs on to its next await.
PointAwait(k, call) == calls' = [calls EXCEPT ![k] = call] /\ UNCHANGED last

\* The resumed request returns and the route answers.
PointReturn(k, reply) == calls' = WithoutCall(k) /\ last' = reply

PointReplyTo(c, error, msg, result) ==
    PointReply(c.id, c.op, c.user, c.amount, c.verifiedPost, error, msg, result)

\* POST /pointing, up to the readOne of create.
createUserPoints(user) ==
    /\ PointArrive
    /\ UNCHANGED points
    /\ IF readOne(points, user) # 0
       THEN PointAnswer(PointReply(steps + 1, "create", user, "", NoPost,
                                   ExistingUserPointsError, "", null))
       ELSE PointSuspend(PointCall(steps + 1, "create", user, "", NoPost,
                                   "createOne", null, << >>, NoId))

\* create, resumed: the createOne of the new document, under a fresh id.
createUserPointsCreateOne(k) ==
    /\ PointResume(k, "create", "createOne")
    /\ points' = createOne(points,
          [_id |-> calls[k].id, user |-> calls[k].user, points |-> finite(0),
           verifiedPosts |-> << >>])
    /\ PointAwait(k, [calls[k] EXCEPT !.pc = "readOne", !._id = calls[k].id])

\* create, resumed: the readOne of the document by its id, and the answer.
createUserPointsReadOne(k) ==
    /\ PointResume(k, "create", "readOne")
    /\ UNCHANGED points
    /\ PointReturn(k, PointReplyTo(calls[k], NoError, "Created point for current user",
                                   readOneById(points, calls[k]._id)))

\* DELETE /pointing: one deleteOne.
deleteUserPoints(user) ==
    /\ PointArrive
    /\ points' = deleteOne(points, user)
    /\ PointAnswer(PointReply(steps + 1, "delete", user, "", NoPost, NoError,
                              "Deleted point for current user", null))

\* awardPoints, from its readOne to the throw or to the partialUpdateOne it
\* awaits next: the error thrown, or the request as it is suspended; call is
\* the request, in flight or just arrived.
readAndCheck(call) ==
    LET pointDoc == readOneByUser(points, call.user) IN
    IF pointDoc = null
    THEN [error |-> NotFoundError, call |-> call]
    ELSE LET r == awardPoints(pointDoc, Number(call.amount), call.verifiedPost) IN
         IF r.error # NoError
         THEN [error |-> r.error, call |-> call]
         ELSE [error |-> NoError,
               call |-> [call EXCEPT !.pc = "partialUpdateOne", !.found = pointDoc,
                                     !.update = r.update]]

\* PATCH /pointing. With a verifiedPost, up to Posting.getById of the post,
\* which exists; without one, up to the readOne of awardPoints and the checks
\* on the document it returned.
awardUserPoints(user, amount, verifiedPost) ==
    LET call == PointCall(steps + 1, "awardPoints", user, amount, verifiedPost,
                          "getById", null, << >>, NoId)
    IN
    /\ PointArrive
    /\ UNCHANGED points
    /\ IF verifiedPost # NoPost
       THEN PointSuspend(call)
       ELSE IF readAndCheck(call).error # NoError
       THEN PointAnswer(PointReplyTo(call, readAndCheck(call).error, "", null))
       ELSE PointSuspend(readAndCheck(call).call)

\* awardUserPoints, resumed after Posting.getById: the readOne of awardPoints
\* and the checks on the document it returned.
awardUserPointsAwardPoints(k) ==
    /\ PointResume(k, "awardPoints", "getById")
    /\ UNCHANGED points
    /\ IF readAndCheck(calls[k]).error # NoError
       THEN PointReturn(k, PointReplyTo(calls[k], readAndCheck(calls[k]).error, "", null))
       ELSE PointAwait(k, readAndCheck(calls[k]).call)

\* awardPoints, resumed: the partialUpdateOne of the total and the posts.
awardUserPointsWrite(k) ==
    /\ PointResume(k, "awardPoints", "partialUpdateOne")
    /\ points' = partialUpdateOne(points, calls[k].user, calls[k].update)
    /\ PointAwait(k, [calls[k] EXCEPT !.pc = "readOne"])

\* awardPoints, resumed: the readOne of the user's document, and the answer.
awardUserPointsReadOne(k) ==
    /\ PointResume(k, "awardPoints", "readOne")
    /\ UNCHANGED points
    /\ PointReturn(k, PointReplyTo(calls[k], NoError, "points awarded",
                                   readOneByUser(points, calls[k].user)))

PointNext ==
    \/ \E user \in Users : createUserPoints(user)
    \/ \E k \in 1..Len(calls) : createUserPointsCreateOne(k)
    \/ \E k \in 1..Len(calls) : createUserPointsReadOne(k)
    \/ \E user \in Users : deleteUserPoints(user)
    \/ \E user \in Users, amount \in AmountStrings, verifiedPost \in Posts \cup {NoPost} :
          awardUserPoints(user, amount, verifiedPost)
    \/ \E k \in 1..Len(calls) : awardUserPointsAwardPoints(k)
    \/ \E k \in 1..Len(calls) : awardUserPointsWrite(k)
    \/ \E k \in 1..Len(calls) : awardUserPointsReadOne(k)

PointSpec == PointInit /\ [][PointNext]_vars

\* The step is the partialUpdateOne of the k-th request in flight.
WritesAward(k) ==
    /\ k \in 1..Len(calls)
    /\ calls[k].op = "awardPoints"
    /\ calls[k].pc = "partialUpdateOne"
    /\ Len(calls') = Len(calls)
    /\ calls'[k].pc = "readOne"

\* The total of the user's document, the one partialUpdateOne({ user }) writes,
\* is at least zero.
TotalAtLeastZero(coll, user) ==
    readOne(coll, user) # 0 => atLeastZero(readOneByUser(coll, user).points)

\* The step is the createOne of a create request: the new document has 0
\* points and no verified post.
CreateStartsAtZero ==
    Len(points') > Len(points) =>
        /\ points'[Len(points')].points = finite(0)
        /\ points'[Len(points')].verifiedPosts = << >>

\* C13: the stored points total of a user is never negative: a created ledger
\* starts at 0, and an award of a positive or negative amount leaves
\* points >= 0: a request that read a total >= 0 and carries an amount that is
\* a number stores a total >= 0.
C13_PointsAtLeastZero ==
    [][/\ CreateStartsAtZero
       /\ \A k \in 1..Len(calls) :
             (/\ WritesAward(k)
              /\ Number(calls[k].amount) # NaN
              /\ atLeastZero(calls[k].found.points)) =>
                 TotalAtLeastZero(points', calls[k].user)]_vars

\* C13, amended: no stored total is ever below zero, and a total that is not at
\* least zero is NaN; a created ledger starts at 0; an award of a finite
\* amount by a request that read a finite total stores a total >= 0; and a
\* rejected award, the one that would drive the total below zero included,
\* leaves the stored points and verifiedPosts unchanged.
C13_NeverBelowZero ==
    /\ [](\A i \in 1..Len(points) :
             /\ ~ lessThanZero(points[i].points)
             /\ atLeastZero(points[i].points) \/ points[i].points = NaN)
    /\ [][/\ CreateStartsAtZero
          /\ \A k \in 1..Len(calls) :
                (/\ WritesAward(k)
                 /\ Number(calls[k].amount).kind = "finite"
                 /\ calls[k].found.points.kind = "finite") =>
                    /\ TotalAtLeastZero(points', calls[k].user)
                    /\ readOne(points', calls[k].user) # 0 =>
                          readOneByUser(points', calls[k].user).points =
                             finite(calls[k].found.points.n + Number(calls[k].amount).n)
          /\ (last'.id # last.id /\ last'.op = "awardPoints" /\ last'.error # NoError) =>
                /\ points' = points
                /\ last'.error = NotAllowedError <=>
                      /\ readOne(points, last'.user) # 0
                      /\ verify(readOneByUser(points, last'.user), Number(last'.amount),
                                last'.verifiedPost).error = NoError
                      /\ lessThanZero(plus(readOneByUser(points, last'.user).points,
                                           Number(last'.amount)))]_vars

\* An award of -2 was rejected because the total, 1 after an accepted award,
\* would fall below zero, and the ledger is as it was.
C13_Witness ==
    /\ last.op = "awardPoints"
    /\ last.error = NotAllowedError
    /\ last.amount = "-2"
    /\ calls = << >>
    /\ Len(points) = 1
    /\ points[1].points = finite(1)

\* A total that is NaN is stored after awards of Infinity and -Infinity.
C13_NaNStored ==
    /\ last.op = "awardPoints"
    /\ last.amount = "-Infinity"
    /\ last.error = NoError
    /\ Len(points) = 1
    /\ points[1].points = NaN

\* ------------------------------------------------------------ the superseded points ledger
\*
\* The second PointingConcept of pointing.ts, the one without verified posts.
\* Its delete and its awardPoints do not await their write: the store call is
\* held by the store while the handler goes on, and it may land before or
\* after the request is answered. A request stays in calls, with pc
\* "answered", for as long as the store holds its write.

\* The request has been answered and the store still holds its write.
Answered == "answered"

\* POST /pointing, up to the readOne of create.
supersededCreateUserPoints(user) ==
    /\ PointArrive
    /\ UNCHANGED points
    /\ IF readOne(points, user) # 0
       THEN PointAnswer(PointReply(steps + 1, "create", user, "", NoPost,
                                   ExistingUserPointsError, "", null))
       ELSE PointSuspend(PointCall(steps + 1, "create", user, "", NoPost,
                                   "createOne", null, << >>, NoId))

\* create, resumed: the createOne of the new document, which has no
\* verifiedPosts.
supersededCreateOne(k) ==
    /\ PointResume(k, "create", "createOne")
    /\ points' = createOne(points,
          [_id |-> calls[k].id, user |-> calls[k].user, points |-> finite(0)])
    /\ PointAwait(k, [calls[k] EXCEPT !.pc = "readOne", !._id = calls[k].id])

\* create, resumed: the readOne of the document by its id, and the answer.
supersededCreateReadOne(k) ==
    /\ PointResume(k, "create", "readOne")
    /\ UNCHANGED points
    /\ PointReturn(k, PointReplyTo(calls[k], NoError, "Created point for current user",
                                   readOneById(points, calls[k]._id)))

\* DELETE /pointing: delete hands deleteOne to the store and returns without
\* awaiting it, and the route answers.
supersededDeleteUserPoints(user) ==
    /\ PointArrive
    /\ UNCHANGED points
    /\ Len(calls) < MaxCalls
    /\ calls' = Append(calls, PointCall(steps + 1, "delete", user, "", NoPost,
                                        Answered, null, << >>, NoId))
    /\ last' = PointReply(steps + 1, "delete", user, "", NoPost, NoError,
                          "Deleted point for current user", null)

\* The deleteOne a delete left with the store lands.
supersededDeleteOne(k) ==
    /\ PointResume(k, "delete", Answered)
    /\ points' = deleteOne(points, calls[k].user)
    /\ calls' = WithoutCall(k)
    /\ UNCHANGED last

\* awardPoints, from its readOne to the throw, or to the partialUpdateOne it
\* hands to the store and the readOne it awaits: the error thrown, or the
\* request as it is suspended; no check of the post or of the total.
supersededReadAndWrite(call) ==
    LET pointDoc == readOneByUser(points, call.user) IN
    IF pointDoc = null
    THEN [error |-> NotFoundError, call |-> call]
    ELSE [error |-> NoError,
          call |-> [call EXCEPT
                       !.pc = "partialUpdateOne", !.found = pointDoc,
                       !.update = [points |-> plus(pointDoc.points,
                                                   Number(call.amount))]]]

\* PATCH /pointing. With a verifiedPost, up to Posting.getById of the post,
\* which exists; without one, up to the readOne of awardPoints.
supersededAwardUserPoints(user, amount, verifiedPost) ==
    LET call == PointCall(steps + 1, "awardPoints", user, amount, verifiedPost,
                          "getById", null, << >>, NoId)
    IN
    /\ PointArrive
    /\ UNCHANGED points
    /\ IF verifiedPost # NoPost
       THEN PointSuspend(call)
       ELSE IF supersededReadAndWrite(call).error # NoError
       THEN PointAnswer(PointReplyTo(call, NotFoundError, "", null))
       ELSE PointSuspend(supersededReadAndWrite(call).call)

\* awardUserPoints, resumed after Posting.getById: the readOne of awardPoints.
supersededAwardPoints(k) ==
    /\ PointResume(k, "awardPoints", "getById")
    /\ UNCHANGED points
    /\ IF supersededReadAndWrite(calls[k]).error # NoError
       THEN PointReturn(k, PointReplyTo(calls[k], NotFoundError, "", null))
       ELSE PointAwait(k, supersededReadAndWrite(calls[k]).call)

\* The partialUpdateOne awardPoints left with the store lands, before the
\* readOne the handler awaits or after the request was answered.
supersededPartialUpdateOne(k) ==
    /\ \E pc \in {"partialUpdateOne", Answered} : PointResume(k, "awardPoints", pc)
    /\ points' = partialUpdateOne(points, calls[k].user, calls[k].update)
    /\ IF calls[k].pc = Answered
       THEN calls' = WithoutCall(k) /\ UNCHANGED last
       ELSE PointAwait(k, [calls[k] EXCEPT !.pc = "readOne"])

\* The readOne awardPoints awaits returns, after the partialUpdateOne or
\* before it, and the route answers.
supersededAwardReadOne(k) ==
    LET reply == PointReplyTo(calls[k], NoError, "points awarded",
                              readOneByUser(points, calls[k].user))
    IN
    /\ \E pc \in {"partialUpdateOne", "readOne"} : PointResume(k, "awardPoints", pc)
    /\ UNCHANGED points
    /\ IF calls[k].pc = "readOne"
       THEN PointReturn(k, reply)
       ELSE /\ calls' = [calls EXCEPT ![k] = [@ EXCEPT !.pc = Answered]]
            /\ last' = reply

SupersededPointNext ==
    \/ \E user \in Users : supersededCreateUserPoints(user)
    \/ \E k \in 1..Len(calls) : supersededCreateOne(k)
    \/ \E k \in 1..Len(calls) : supersededCreateReadOne(k)
    \/ \E user \in Users : supersededDeleteUserPoints(user)
    \/ \E k \in 1..Len(calls) : supersededDeleteOne(k)
    \/ \E user \in Users, amount \in AmountStrings, verifiedPost \in Posts \cup {NoPost} :
          supersededAwardUserPoints(user, amount, verifiedPost)
    \/ \E k \in 1..Len(calls) : supersededAwardPoints(k)
    \/ \E k \in 1..Len(calls) : supersededPartialUpdateOne(k)
    \/ \E k \in 1..Len(calls) : supersededAwardReadOne(k)

SupersededPointSpec == PointInit /\ [][SupersededPointNext]_vars

\* In the superseded ledger an award of -1 on a total of 0 is stored: the
\* total is below zero, which the canonical ledger rejects.
Superseded_TotalBelowZero ==
    \E i \in 1..Len(points) : lessThanZero(points[i].points)

\* An award was answered with the total it read before its own write, which
\* the store still holds.
Superseded_AnsweredBeforeWrite ==
    /\ last.op = "awardPoints"
    /\ last.error = NoError
    /\ \E k \in 1..Len(calls) :
          /\ calls[k].id = last.id
          /\ calls[k].pc = Answered
          /\ last.result.points # calls[k].update.points

\* A delete was answered and the document is still stored.
Superseded_AnsweredBeforeDelete ==
    /\ last.op = "delete"
    /\ \E k \in 1..Len(calls) : calls[k].id = last.id /\ calls[k].pc = Answered
    /\ readOne(points, last.user) # 0

====
